---------------------------- MODULE Spec2Model ----------------------------
(***************************************************************************)
(* The Game of Life workflow of backend/gol (game.go, board.go) and the    *)
(* state-stream registry of backend/client.go, as a state machine.         *)
(*                                                                         *)
(* The controller is the workflow function GameOfLife of game.go:321-397.  *)
(* It keeps the board and the step counter in the package variables        *)
(* GolBoard and Steps (game.go:279-283) and the pause flag in the local    *)
(* GolState.  One loop iteration is: the loop head (game.go:360-369), the  *)
(* blocking Select (game.go:372) that runs exactly one ready callback, and *)
(* the code after the Select (game.go:374-390).  The model splits an       *)
(* iteration at the Select, the only point where the workflow waits.       *)
(*                                                                         *)
(* Boards are functions 0..rows-1 -> 0..cols-1 -> BOOLEAN, indexed as the  *)
(* Go slices are.  The 512 x 512 board, the 5000 steps and the store       *)
(* interval of 50 are scaled down to the bounds below.                     *)
(***************************************************************************)
EXTENDS Integers, Sequences, FiniteSets, TLC

(* ------------------------------ bounds -------------------------------- *)

\* game.go:271-272 set 512 x 512; the model runs a small board.
DefaultBoardLength == 3
DefaultBoardWidth == 3
\* game.go:269 sets 5000; input.MaxSteps = 0 selects this default.
DefaultMaxSteps == 5
\* game.go:273 sets 50: continue-as-new whenever Steps is a multiple of it.
DefaultStoreInterval == 2
\* Number of signals (toggleStatus, splatter) clients send to the run.
MaxSignals == 2
\* Number of boards stored with StoreBoard, and of the references there are.
MaxBoards == 3
\* Number of HTTP clients that may ask for the state stream.
MaxSubscribers == 2
\* Executions the model follows of a run whose loop never ends.
MaxExecutions == 2
\* Cells besides its target that one RandomSplatter sets in the model (its
\* draws may repeat or fall off the board, so it may set as few as none).
MaxSplatterCells == 1
\* Buffer size of the state stream in the build whose SendState makes a
\* buffered channel (part_002:141 makes it with 5).
StateStreamBuffer == 2

Rows == 0 .. (DefaultBoardLength - 1)
Cols == 0 .. (DefaultBoardWidth - 1)
Subscribers == 1 .. MaxSubscribers

\* The workflow ID StartGameOfLife allocates (client.go:184); kept by every
\* continued-as-new execution of the run.
WorkflowId == "run"

(* ------------------------------ boards -------------------------------- *)

\* len(board) of a Go slice modelled as a function on 0..n-1.
len(s) == Cardinality(DOMAIN s)

\* The nil Board (Go zero value of the package variable GolBoard).
NilBoard == <<>>

\* make(Board, rows) with every row make([]bool, cols): all cells dead.
MakeBoard(rows, cols) == [i \in 0 .. (rows - 1) |-> [j \in 0 .. (cols - 1) |-> FALSE]]

\* The board of the model's size whose live cells are those in S.
BoardOf(S) == [i \in Rows |-> [j \in Cols |-> <<i, j>> \in S]]

\* The cells alive in a board.
Alive(board) ==
    {c \in (DOMAIN board) \X (IF len(board) = 0 THEN {} ELSE DOMAIN board[0]) : board[c[1]][c[2]]}

\* countAliveNeighbors without the test that skips the cell itself.
countAliveNeighborsWithSelf(board, i, j) ==
    Cardinality({d \in (-1 .. 1) \X (-1 .. 1) :
        /\ ~(i + d[1] < 0 \/ i + d[1] >= len(board) \/ j + d[2] < 0 \/ j + d[2] >= len(board[0]))
        /\ board[i + d[1]][j + d[2]]})

\* countAliveNeighbors on a board whose edges are joined: a neighbour off the
\* grid is the cell on the opposite side.
countAliveNeighborsWrapped(board, i, j) ==
    Cardinality({d \in (-1 .. 1) \X (-1 .. 1) :
        /\ ~(d[1] = 0 /\ d[2] = 0)
        /\ board[(i + d[1]) % len(board)][(j + d[2]) % len(board[0])]})

countAliveNeighbors(board, i, j) ==
    Cardinality({d \in (-1 .. 1) \X (-1 .. 1) :
        /\ ~(d[1] = 0 /\ d[2] = 0)
        /\ ~(i + d[1] < 0 \/ i + d[1] >= len(board) \/ j + d[2] < 0 \/ j + d[2] >= len(board[0]))
        /\ board[i + d[1]][j + d[2]]})

\* NextGeneration that makes its result one row short.
NextGenerationShort(board) ==
    LET rows == len(board) - 1
        cols == len(board[0])
    IN  [i \in 0 .. (rows - 1) |-> [j \in 0 .. (cols - 1) |->
            LET aliveNeighbors == countAliveNeighbors(board, i, j)
            IN  IF board[i][j]
                THEN aliveNeighbors = 2 \/ aliveNeighbors = 3
                ELSE aliveNeighbors = 3]]

NextGeneration(board) ==
    LET rows == len(board)
        cols == len(board[0])
    IN  [i \in 0 .. (rows - 1) |-> [j \in 0 .. (cols - 1) |->
            LET aliveNeighbors == countAliveNeighbors(board, i, j)
            IN  IF board[i][j]
                THEN aliveNeighbors = 2 \/ aliveNeighbors = 3
                ELSE aliveNeighbors = 3]]

\* DiffFlippedFrom that lists only the cells that came alive.
RECURSIVE DiffFlippedFromBorn(_, _, _)
DiffFlippedFromBorn(prev, curr, k) ==
    LET cols == len(curr[0])
        i == k \div cols
        j == k % cols
    IN  IF k >= len(curr) * cols
        THEN <<>>
        ELSE (IF ~prev[i][j] /\ curr[i][j] THEN <<(<<i, j>>)>> ELSE <<>>)
                 \o DiffFlippedFromBorn(prev, curr, k + 1)

\* The k-th cell in row-major order and the cells from it on that differ.
RECURSIVE DiffFlippedFrom(_, _, _)
DiffFlippedFrom(prev, curr, k) ==
    LET cols == len(curr[0])
        i == k \div cols
        j == k % cols
    IN  IF k >= len(curr) * cols
        THEN <<>>
        ELSE (IF prev[i][j] # curr[i][j] THEN <<(<<i, j>>)>> ELSE <<>>)
                 \o DiffFlippedFrom(prev, curr, k + 1)

\* Every [row, col] whose value differs, in row-major order.
DiffFlipped(prev, curr) ==
    IF len(curr) = 0 THEN <<>> ELSE DiffFlippedFrom(prev, curr, 0)

\* The number of rows of a board and the lengths its rows have.
Dimensions(board) == [rows |-> len(board), cols |-> {len(board[i]) : i \in DOMAIN board}]

\* The set of cells a flipped list names.
Range(s) == {s[k] : k \in DOMAIN s}

\* What a client makes of its board when it applies a flipped list from the
\* k-th cell on (App.tsx:174-183): each cell named is toggled, in order.
RECURSIVE FlipFrom(_, _, _)
FlipFrom(board, flipped, k) ==
    IF k > Len(flipped)
    THEN board
    ELSE LET x == flipped[k][1]
             y == flipped[k][2]
         IN  FlipFrom([board EXCEPT ![x][y] = ~@], flipped, k + 1)

(* ----------------------------- activities ----------------------------- *)

\* board.go:139-151: the cells within the circular radius that lie on the board.
Candidates(rows, cols, Row, Col, Radius) ==
    {c \in (0 .. (rows - 1)) \X (0 .. (cols - 1)) :
        \E i \in (-Radius) .. Radius, j \in (-Radius) .. Radius :
            /\ i * i + j * j <= Radius * Radius
            /\ c = <<Row + i, Col + j>>}

\* board[r][c] = true for every cell of S (the writes of board.go:161-167).
Fill(board, S) ==
    [i \in DOMAIN board |-> [j \in DOMAIN board[i] |-> board[i][j] \/ <<i, j>> \in S]]

\* Am.Splatter (board.go:135-170).  The result is the set of outcomes the
\* random draws allow: the first numToFill cells of the shuffled candidates
\* are any numToFill of the candidates.  rand.Intn(n) panics for n <= 0
\* (board.go:159) and the write of the centre cell (board.go:167) panics when
\* the origin is off the board, after the candidate cells were written.
Splatter(board, Row, Col, Radius) ==
    LET rows == len(board)
        cols == len(board[0])
        candidates == Candidates(rows, cols, Row, Col, Radius)
        half == Cardinality(candidates) \div 2
        inside == Row >= 0 /\ Row < rows /\ Col >= 0 /\ Col < cols
    IN  IF half <= 0
        THEN {[panic |-> TRUE, Board |-> board]}
        ELSE {[panic |-> ~inside,
               Board |-> Fill(board, IF inside THEN S \cup {<<Row, Col>>} ELSE S)] :
                 S \in {T \in SUBSET candidates :
                           Cardinality(T) >= 1 /\ Cardinality(T) <= half}}

\* Am.Splatter of client.go:596-612, the variant that takes NumCellsToSet.
\* Each of the NumCellsToSet draws picks a row offset and a column offset in
\* -Radius .. Radius and sets the cell when it is on the board, so the cells
\* set are any at most NumCellsToSet cells of that square; then the origin is
\* written (client.go:610), which panics when it is off the board.
SplatterWithNumCells(board, Row, Col, Radius, NumCellsToSet) ==
    LET rows == len(board)
        cols == len(board[0])
        square == {c \in (0 .. (rows - 1)) \X (0 .. (cols - 1)) :
                      /\ c[1] - Row \in (-Radius) .. Radius
                      /\ c[2] - Col \in (-Radius) .. Radius}
        inside == Row >= 0 /\ Row < rows /\ Col >= 0 /\ Col < cols
    IN  {[panic |-> ~inside,
          Board |-> Fill(board, IF inside THEN S \cup {<<Row, Col>>} ELSE S)] :
            S \in {T \in SUBSET square : Cardinality(T) <= NumCellsToSet}}

\* Am.RandomSplatter with the Splatter it calls (client.go:569-612): a random
\* cell of the board is the target; up to Radius*4 + 3 draws each set a cell
\* at most Radius rows and columns away from it (a draw off the board sets
\* nothing), and the target itself is set.  The model keeps the outcomes
\* that set at most MaxSplatterCells cells besides the target.
RandomSplatter(board, Radius) ==
    LET cells == (DOMAIN board) \X (DOMAIN board[0])
        Near(target) == {cell \in cells :
                            /\ cell[1] - target[1] \in (-Radius) .. Radius
                            /\ cell[2] - target[2] \in (-Radius) .. Radius}
    IN  UNION {{Fill(board, S \cup {target}) :
                    S \in {T \in SUBSET Near(target) :
                              /\ Cardinality(T) <= Radius * 4 + 3
                              /\ Cardinality(T) <= MaxSplatterCells}} :
               target \in cells}

\* The boards a fresh run may be seeded with.  GetRandomBoard
\* (board.go:178-215) fills circular clusters cell by cell with probability
\* 0.6, so any pattern inside the clusters can come out; the model draws from
\* a few patterns: none, one cell, a corner cell, a diagonal pair, an L, a
\* block, the two blinkers, a T, a glider, a ring and the full board.
SeedPatterns ==
    { {},
      {<<1, 1>>},
      {<<0, 0>>},
      {<<0, 0>>, <<1, 1>>},
      {<<0, 0>>, <<0, 1>>, <<1, 0>>},
      {<<0, 0>>, <<0, 1>>, <<1, 0>>, <<1, 1>>},
      {<<1, 0>>, <<1, 1>>, <<1, 2>>},
      {<<0, 1>>, <<1, 1>>, <<2, 1>>},
      {<<0, 0>>, <<0, 1>>, <<0, 2>>, <<1, 1>>},
      {<<0, 1>>, <<1, 2>>, <<2, 0>>, <<2, 1>>, <<2, 2>>},
      (Rows \X Cols) \ {<<1, 1>>},
      Rows \X Cols }

InitialBoards == {BoardOf(S) : S \in SeedPatterns}

\* Am.GetInitialBoard: called by Init (game.go:410-414) but defined in no
\* source file.  With UseInMemoryBoard it hands back the board the previous
\* execution left (the checkpoint), otherwise a freshly seeded board.
GetInitialBoard(UseInMemoryBoard, inMemory) ==
    IF UseInMemoryBoard THEN {inMemory} ELSE InitialBoards

\* The payloads of the splatter signals the clients send (game.go:312-316).
\* The last one has its origin off the board.
SplatterSignals ==
    { [X |-> 1, Y |-> 1, Size |-> 1],
      [X |-> 1, Y |-> 1, Size |-> 0],
      [X |-> 0, Y |-> 0, Size |-> 1],
      [X |-> DefaultBoardLength, Y |-> 0, Size |-> 1] }

(* ------------------------------- state -------------------------------- *)

VARIABLES
    GolBoard,         \* game.go:280  the in-memory board (package variable)
    Steps,            \* game.go:283  the global step counter (package variable)
    input,            \* the GameOfLifeInput of the current execution
    state,            \* the GolState of the current execution (Id, Paused, TickTime)
    pc,               \* where the workflow is: "init", "loop", "select", "failed", "done"
    timers,           \* timer futures added to the selector and not yet selected
    toggleChannel,    \* toggleStatus signals received and not yet consumed
    splatterChannel,  \* splatter signals received and not yet consumed
    StateStreams,     \* client.go:408  the run IDs that have a channel in the registry
    StateStream,      \* board.go:220   the stream variable: nil or made, and what it buffers
    subs,             \* per HTTP client: the state of its GetState request and the
                      \* events written on its response up to the first data event
    received,         \* per HTTP client: the last StateChange it read from the channel
    published,        \* the last StateChange handed to SendState
    sentSteps,        \* the Step of every StateChange handed to SendState, in order
    iterSteps,        \* Steps when the loop condition of the current iteration was tested
    handled,          \* the callback the last Select ran: "timer", "toggle", "splatter"
    nSignals,         \* signals sent to the run so far
    execution,        \* executions of the run started so far (1 + continue-as-new)
    activity,         \* part_003:116  the RandomSplatter activity the splatter
                      \* goroutine waits for: its input, or empty when there is none
    other,            \* a second workflow in the same worker: where it is, the
                      \* timers on its selector, the UseExistingBoard of its input
    Boards,           \* board.go:223  the table of stored boards, by reference
    stored,           \* every reference StoreBoard returned with the board it was
                      \* given, in the order of the calls
    call              \* the last call the worker made of a board function or a
                      \* store activity outside a run: its name, its arguments as
                      \* they are after the call, and what it returned

vars == <<GolBoard, Steps, input, state, pc, timers, toggleChannel, splatterChannel,
          StateStreams, StateStream, subs, received, published, sentSteps, iterSteps,
          handled, nSignals, execution, activity, other, Boards, call, stored>>

\* The ID StartGameOfLife gives a second workflow (client.go:184).
OtherWorkflowId == "run2"

\* The run IDs a client may ask the state stream of: the run and an ID no
\* workflow was started with.
RequestIds == {WorkflowId, "other"}

\* The zero StateChange: nothing published or received yet.
NoStateChange == [Id |-> "", Paused |-> FALSE, Step |-> 0, TickTime |-> 0, Flipped |-> <<>>]

\* make(map[string]Board) (board.go:223): the empty table.
NoBoards == [ref \in {} |-> NilBoard]

\* No board function or store activity was called yet.
NoCall == [name |-> "none"]

\* The nil state stream (board.go:220) of a build whose SendState makes the
\* channel with the given buffer size.
NilStateStream(capacity) == [made |-> FALSE, capacity |-> capacity, buffer |-> <<>>]

\* StartGameOfLife (client.go:182-194) starts the workflow with the zero
\* GameOfLifeInput; the package variables hold their Go zero values.
InitBuild(capacity) ==
    /\ GolBoard = NilBoard
    /\ Steps = 0
    /\ input = [MaxSteps |-> 0, TickTime |-> 0, UseExistingBoard |-> FALSE, Paused |-> FALSE]
    /\ state = [Id |-> "", Paused |-> FALSE, TickTime |-> 0]
    /\ pc = "init"
    /\ timers = 0
    /\ toggleChannel = 0
    /\ splatterChannel = <<>>
    /\ StateStreams = {}
    /\ StateStream = NilStateStream(capacity)
    /\ subs = [s \in Subscribers |-> [status |-> "idle", id |-> "", sent |-> <<>>]]
    /\ received = [s \in Subscribers |-> NoStateChange]
    /\ published = NoStateChange
    /\ sentSteps = <<>>
    /\ iterSteps = 0
    /\ handled = "none"
    /\ nSignals = 0
    /\ execution = 0
    /\ activity = <<>>
    /\ other = [pc |-> "idle", timers |-> 0, UseExistingBoard |-> FALSE]
    /\ Boards = NoBoards
    /\ stored = <<>>
    /\ call = NoCall

\* The build whose SendState makes an unbuffered channel (board.go:240,
\* client.go:428).
Init == InitBuild(0)

\* The build whose SendState makes a buffered channel (part_002:141).
BufferedInit == InitBuild(StateStreamBuffer)

(* ----------------------------- broadcaster ---------------------------- *)

\* StateChangeFromNothing of a handler that holds the paused flag the
\* execution was started with instead of the one it has now.
StateChangeFromNothingOfInput(from) ==
    [Id |-> from.Id,
     Paused |-> input.Paused,
     Step |-> Steps,
     TickTime |-> from.TickTime,
     Flipped |-> DiffFlipped(MakeBoard(DefaultBoardLength, DefaultBoardWidth), GolBoard)]

\* StateChangeFromNothing (game.go:507-519): the live cells of the in-memory
\* board as the flips from an all-dead board.
StateChangeFromNothing(from) ==
    [Id |-> from.Id,
     Paused |-> from.Paused,
     Step |-> Steps,
     TickTime |-> from.TickTime,
     Flipped |-> DiffFlipped(MakeBoard(DefaultBoardLength, DefaultBoardWidth), GolBoard)]

\* board.go:239-241, part_002:140-142: SendState makes the channel when the
\* stream is nil.
MakeStateStream == [StateStream EXCEPT !.made = TRUE]

\* The clients blocked in the receive of client.go:151 on the channel of id.
Listening(id) == {s \in Subscribers : subs[s].status = "listening" /\ subs[s].id = id}

\* Am.SendState (client.go:421-439, board.go:234-250, part_002:139-151):
\* make the run's channel if there is none, then a non-blocking send: a
\* client blocked in the receive gets the StateChange, else it goes into the
\* channel's buffer while there is room (an unbuffered channel has none),
\* else it is dropped.
SendState(State) ==
    LET stream == MakeStateStream
    IN  /\ StateStreams' = StateStreams \cup {State.Id}
        /\ IF stream.buffer = <<>> /\ Listening(State.Id) # {}
           THEN /\ \E s \in Listening(State.Id) :
                      /\ subs' = [subs EXCEPT ![s].status = "writing"]
                      /\ received' = [received EXCEPT ![s] = State]
                /\ StateStream' = stream
           ELSE /\ StateStream' =
                      IF Len(stream.buffer) < stream.capacity
                      THEN [stream EXCEPT !.buffer = Append(@, State)]
                      ELSE stream
                /\ UNCHANGED <<subs, received>>
        /\ published' = State
        /\ sentSteps' = Append(sentSteps, State.Step)

\* GetState without the registry lookup: the stream is opened whatever the
\* run ID.
GetStateWithoutLookup(s, id) ==
    /\ subs[s].status \in {"idle", "notfound"}
    /\ subs' = [subs EXCEPT ![s] =
                   [status |-> "listening", id |-> id,
                    sent |-> <<"connection_established">>]]
    /\ UNCHANGED <<GolBoard, Steps, input, state, pc, timers, toggleChannel,
                   splatterChannel, StateStreams, StateStream, received, published,
                   sentSteps, iterSteps, handled, nSignals, execution, activity, other, Boards, call, stored>>

\* TemporalClient.GetState up to the receive loop (client.go:96-137): 404
\* when the registry has no channel for the ID, else the SSE headers and the
\* connection_established event are written and the receive loop entered.
GetState(s, id) ==
    /\ subs[s].status \in {"idle", "notfound"}
    /\ subs' = [subs EXCEPT ![s] =
                   IF id \in StateStreams
                   THEN [status |-> "listening", id |-> id,
                         sent |-> <<"connection_established">>]
                   ELSE [status |-> "notfound", id |-> id, sent |-> <<>>]]
    /\ UNCHANGED <<GolBoard, Steps, input, state, pc, timers, toggleChannel,
                   splatterChannel, StateStreams, StateStream, received, published,
                   sentSteps, iterSteps, handled, nSignals, execution, activity, other, Boards, call, stored>>

\* client.go:151-161: the received StateChange is written to the client and
\* the loop returns to the select.
WriteState(s) ==
    /\ subs[s].status = "writing"
    /\ subs' = [subs EXCEPT ![s].status = "listening",
                            ![s].sent = IF Len(@) < 2 THEN Append(@, "data") ELSE @]
    /\ UNCHANGED <<GolBoard, Steps, input, state, pc, timers, toggleChannel,
                   splatterChannel, StateStreams, StateStream, received, published,
                   sentSteps, iterSteps, handled, nSignals, execution, activity, other, Boards, call, stored>>

\* client.go:141-143: the client went away, the request context is done.
ContextDone(s) ==
    /\ subs[s].status = "listening"
    /\ subs' = [subs EXCEPT ![s].status = "idle"]
    /\ UNCHANGED <<GolBoard, Steps, input, state, pc, timers, toggleChannel,
                   splatterChannel, StateStreams, StateStream, received, published,
                   sentSteps, iterSteps, handled, nSignals, execution, activity, other, Boards, call, stored>>

\* client.go:151: the receive of a client takes the oldest StateChange the
\* channel has buffered.
ReceiveStateStream(s) ==
    /\ subs[s].status = "listening"
    /\ StateStream.buffer # <<>>
    /\ subs' = [subs EXCEPT ![s].status = "writing"]
    /\ received' = [received EXCEPT ![s] = Head(StateStream.buffer)]
    /\ StateStream' = [StateStream EXCEPT !.buffer = Tail(@)]
    /\ UNCHANGED <<GolBoard, Steps, input, state, pc, timers, toggleChannel,
                   splatterChannel, StateStreams, published, sentSteps, iterSteps,
                   handled, nSignals, execution, activity, other, Boards, call, stored>>

(* ------------------------------ signals ------------------------------- *)

\* TemporalClient.SendSignal (client.go:166-180) with event name
\* toggleStatus: the signal is queued on the run's toggle channel.
SendToggle ==
    /\ pc # "done"
    /\ nSignals < MaxSignals
    /\ toggleChannel' = toggleChannel + 1
    /\ nSignals' = nSignals + 1
    /\ UNCHANGED <<GolBoard, Steps, input, state, pc, timers, splatterChannel,
                   StateStreams, StateStream, subs, received, published, sentSteps,
                   iterSteps, handled, execution, activity, other, Boards, call, stored>>

\* TemporalClient.SendSignal with event name splatter and a JSON body.
SendSplatter(signal) ==
    /\ pc # "done"
    /\ nSignals < MaxSignals
    /\ splatterChannel' = Append(splatterChannel, signal)
    /\ nSignals' = nSignals + 1
    /\ UNCHANGED <<GolBoard, Steps, input, state, pc, timers, toggleChannel,
                   StateStreams, StateStream, subs, received, published, sentSteps,
                   iterSteps, handled, execution, activity, other, Boards, call, stored>>

(* ----------------------------- controller ----------------------------- *)

\* GameOfLifeStart with a step counter that every execution starts at 0.
GameOfLifeStartFromZero ==
    /\ pc = "init"
    /\ \E board \in GetInitialBoard(input.UseExistingBoard, GolBoard) :
           GolBoard' = board
    /\ input' = [input EXCEPT !.MaxSteps = IF @ = 0 THEN DefaultMaxSteps ELSE @]
    /\ state' = [Id |-> WorkflowId, Paused |-> input.Paused, TickTime |-> input.TickTime]
    /\ timers' = 0
    /\ Steps' = 0
    /\ execution' = execution + 1
    /\ pc' = "loop"
    /\ UNCHANGED <<toggleChannel, splatterChannel, StateStreams, StateStream,
                   subs, received, published, sentSteps, iterSteps, handled, nSignals,
                   activity, other, Boards, call, stored>>

\* GameOfLife up to the loop (game.go:321-357) with Init (game.go:404-428):
\* the MaxSteps default, the initial board into GolBoard, the GolState from
\* the input, a new selector and new signal channels.  Steps is not touched.
GameOfLifeStart ==
    /\ pc = "init"
    /\ \E board \in GetInitialBoard(input.UseExistingBoard, GolBoard) :
           GolBoard' = board
    /\ input' = [input EXCEPT !.MaxSteps = IF @ = 0 THEN DefaultMaxSteps ELSE @]
    /\ state' = [Id |-> WorkflowId, Paused |-> input.Paused, TickTime |-> input.TickTime]
    /\ timers' = 0
    /\ execution' = execution + 1
    /\ pc' = "loop"
    /\ UNCHANGED <<Steps, toggleChannel, splatterChannel, StateStreams, StateStream,
                   subs, received, published, sentSteps, iterSteps, handled, nSignals, activity, other, Boards, call, stored>>

\* The loop head (game.go:360-369): while Steps < MaxSteps; when not paused
\* count the step and add a new timer to the selector; then block in Select.
LoopHead ==
    /\ pc = "loop"
    /\ Steps < input.MaxSteps
    /\ iterSteps' = Steps
    /\ IF ~state.Paused
       THEN Steps' = Steps + 1 /\ timers' = timers + 1
       ELSE UNCHANGED <<Steps, timers>>
    /\ pc' = "select"
    /\ UNCHANGED <<GolBoard, input, state, toggleChannel, splatterChannel, StateStreams,
                   StateStream, subs, received, published, sentSteps, handled, nSignals,
                   execution, activity, other, Boards, call, stored>>

\* The loop ends (game.go:393-396): the stream variable is set to nil and
\* the workflow returns.  The registry StateStreams is not written.
Cleanup ==
    /\ pc = "loop"
    /\ ~(Steps < input.MaxSteps)
    /\ StateStream' = NilStateStream(StateStream.capacity)
    /\ pc' = "done"
    /\ UNCHANGED <<GolBoard, Steps, input, state, timers, toggleChannel, splatterChannel,
                   StateStreams, subs, received, published, sentSteps, iterSteps, handled,
                   nSignals, execution, activity, other, Boards, call, stored>>

\* NextGenerationAndSendState with the step read before the loop head
\* counted it: the StateChange carries the previous step.
NextGenerationAndSendStateStale(golState, board) ==
    LET nextGeneration == NextGeneration(board)
        flipped == DiffFlipped(board, nextGeneration)
    IN  /\ GolBoard' = nextGeneration
        /\ SendState([Id |-> golState.Id,
                      Paused |-> golState.Paused,
                      Step |-> iterSteps,
                      TickTime |-> golState.TickTime,
                      Flipped |-> flipped])

\* NextGenerationAndSendState (game.go:526-537), run on the board as it is
\* when the Select returns.
NextGenerationAndSendState(golState, board) ==
    LET nextGeneration == NextGeneration(board)
        flipped == DiffFlipped(board, nextGeneration)
    IN  /\ GolBoard' = nextGeneration
        /\ SendState([Id |-> golState.Id,
                      Paused |-> golState.Paused,
                      Step |-> Steps,
                      TickTime |-> golState.TickTime,
                      Flipped |-> flipped])

\* ContinueAsNewInput without UseExistingBoard: the continued execution
\* would seed a fresh board.
ContinueAsNewInputFresh(golState) ==
    [MaxSteps |-> input.MaxSteps,
     TickTime |-> golState.TickTime,
     UseExistingBoard |-> FALSE,
     Paused |-> input.Paused]

\* The input of the continued execution (game.go:384-389).
ContinueAsNewInput(golState) ==
    [MaxSteps |-> input.MaxSteps,
     TickTime |-> golState.TickTime,
     UseExistingBoard |-> TRUE,
     Paused |-> input.Paused]

\* The code after the Select (game.go:374-390): the next generation is
\* computed and sent whatever callback ran, then the workflow continues as
\* new when Steps is a multiple of the store interval.  The ended execution's
\* selector (its pending timers) and unread signals go with it.
AfterSelect(golState, board, pendingTimers, pendingToggles, pendingSplatters) ==
    /\ NextGenerationAndSendState(golState, board)
    /\ state' = golState
    /\ IF Steps % DefaultStoreInterval = 0
       THEN /\ input' = ContinueAsNewInput(golState)
            /\ timers' = 0
            /\ toggleChannel' = 0
            /\ splatterChannel' = <<>>
            /\ pc' = "init"
       ELSE /\ timers' = pendingTimers
            /\ toggleChannel' = pendingToggles
            /\ splatterChannel' = pendingSplatters
            /\ pc' = "loop"
            /\ UNCHANGED input
    /\ UNCHANGED <<Steps, iterSteps, nSignals, execution, activity, other, Boards, call, stored>>

\* Select runs the callback of a timer that fired (game.go:366-368).
TimerFuture ==
    /\ pc = "select"
    /\ timers > 0
    /\ handled' = "timer"
    /\ AfterSelect(state, GolBoard, timers - 1, toggleChannel, splatterChannel)

\* Select runs the toggle callback (game.go:340-343).
ToggleReceive ==
    /\ pc = "select"
    /\ toggleChannel > 0
    /\ handled' = "toggle"
    /\ AfterSelect([state EXCEPT !.Paused = ~state.Paused], GolBoard,
                   timers, toggleChannel - 1, splatterChannel)

\* Select runs the splatter callback (game.go:345-357): the Splatter
\* activity sets cells of the in-memory board.  An activity that panics does
\* not return to the callback (it is retried and panics again, or the error
\* reaches log.Fatalf): the run handles nothing more.
SplatterReceive ==
    /\ pc = "select"
    /\ splatterChannel # <<>>
    /\ handled' = "splatter"
    /\ LET signal == Head(splatterChannel)
       IN  \E result \in Splatter(GolBoard, signal.X, signal.Y, signal.Size) :
               IF result.panic
               THEN /\ GolBoard' = result.Board
                    /\ splatterChannel' = Tail(splatterChannel)
                    /\ pc' = "failed"
                    /\ UNCHANGED <<Steps, input, state, timers, toggleChannel,
                                   StateStreams, StateStream, subs, received, published,
                                   sentSteps, iterSteps, nSignals, execution, activity, other, Boards, call, stored>>
               ELSE AfterSelect(state, result.Board, timers, toggleChannel,
                                Tail(splatterChannel))

(* ------------- the controller with one goroutine per signal ---------- *)

\* GameOfLife of part_003 up to the loop (part_003:95-135) with its Init
\* (part_003:172-201): the board of the input or, when there is none, a
\* random one; the MaxSteps default; a Gol whose Steps is 0.  The goroutines
\* of the ended execution are gone with what they waited for.
GoroutineGameOfLifeStart ==
    /\ pc = "init"
    /\ execution < MaxExecutions
    /\ \E board \in IF input.UseExistingBoard THEN {GolBoard} ELSE InitialBoards :
           GolBoard' = board
    /\ input' = [input EXCEPT !.MaxSteps = IF @ = 0 THEN DefaultMaxSteps ELSE @]
    /\ state' = [Id |-> WorkflowId, Paused |-> FALSE, TickTime |-> input.TickTime]
    /\ Steps' = 0
    /\ execution' = execution + 1
    /\ pc' = "loop"
    /\ UNCHANGED <<timers, toggleChannel, splatterChannel, StateStreams, StateStream,
                   subs, received, published, sentSteps, iterSteps, handled, nSignals,
                   activity, other, Boards, call, stored>>

\* One turn of the generation loop (part_003:137-161): the next generation
\* into state.Board, the step counted, the state sent, and continue-as-new
\* with the board when Steps is a multiple of the interval (250 in
\* part_003:155, DefaultStoreInterval here).
GenerationLoop ==
    /\ pc = "loop"
    /\ Steps < input.MaxSteps
    /\ LET nextGeneration == NextGeneration(GolBoard)
       IN  /\ GolBoard' = nextGeneration
           /\ Steps' = Steps + 1
           /\ SendState([Id |-> state.Id,
                         Paused |-> FALSE,
                         Step |-> Steps + 1,
                         TickTime |-> state.TickTime,
                         Flipped |-> DiffFlipped(GolBoard, nextGeneration)])
    /\ handled' = "timer"
    /\ IF (Steps + 1) % DefaultStoreInterval = 0
       THEN /\ input' = [MaxSteps |-> input.MaxSteps,
                         TickTime |-> input.TickTime,
                         UseExistingBoard |-> TRUE,
                         Paused |-> FALSE]
            /\ splatterChannel' = <<>>
            /\ activity' = <<>>
            /\ pc' = "init"
       ELSE UNCHANGED <<input, splatterChannel, activity, pc, other>>
    /\ UNCHANGED <<state, timers, toggleChannel, iterSteps, nSignals, execution, other, Boards, call, stored>>

\* The splatter goroutine receives a signal (part_003:107-119): size 0 means
\* 5, and the RandomSplatter activity is started with the board as it is
\* now.  The goroutine then waits for the result while the generation loop
\* goes on.
SplatterGoroutineReceive ==
    /\ pc = "loop"
    /\ activity = <<>>
    /\ splatterChannel # <<>>
    /\ LET request == Head(splatterChannel)
       IN  activity' = <<[Board |-> GolBoard,
                          Radius |-> IF request.Size = 0 THEN 5 ELSE request.Size]>>
    /\ splatterChannel' = Tail(splatterChannel)
    /\ UNCHANGED <<GolBoard, Steps, input, state, pc, timers, toggleChannel,
                   StateStreams, StateStream, subs, received, published, sentSteps,
                   iterSteps, handled, nSignals, execution, other, Boards, call, stored>>

\* The activity's result arrives (part_003:120-123): state.Board = board.
SplatterGoroutineResult ==
    /\ pc = "loop"
    /\ activity # <<>>
    /\ \E board \in RandomSplatter(Head(activity).Board, Head(activity).Radius) :
           GolBoard' = board
    /\ activity' = <<>>
    /\ handled' = "splatter"
    /\ UNCHANGED <<Steps, input, state, pc, timers, toggleChannel, splatterChannel,
                   StateStreams, StateStream, subs, received, published, sentSteps,
                   iterSteps, nSignals, execution, other, Boards, call, stored>>

\* GameOfLife of part_003 when the GetRandomBoard activity of its Init
\* returns an error (part_003:186-192): Init returns the zero Gol, whose
\* MaxStep is 0, so the generation loop is not entered (part_003:137) and
\* the workflow returns nil (part_003:164).
GoroutineInitFails ==
    /\ pc = "init"
    /\ ~input.UseExistingBoard
    /\ execution < MaxExecutions
    /\ call = NoCall
    /\ call' = [name |-> "GetRandomBoard", err |-> TRUE]
    /\ GolBoard' = NilBoard
    /\ state' = [Id |-> "", Paused |-> FALSE, TickTime |-> 0]
    /\ Steps' = 0
    /\ execution' = execution + 1
    /\ pc' = "done"
    /\ UNCHANGED <<input, timers, toggleChannel, splatterChannel, StateStreams,
                   StateStream, subs, received, published, sentSteps, iterSteps,
                   handled, nSignals, activity, other, Boards, stored>>

(* ------------------ a second run in the same worker ------------------ *)

\* The GolState of the second workflow (game.go:422-426); no signal is sent
\* to it, so it stays unpaused.
OtherState == [Id |-> OtherWorkflowId, Paused |-> FALSE, TickTime |-> 0]

\* StartGameOfLife is called again (client.go:182-194): a second workflow
\* with an ID of its own is started on the same task queue.
OtherStartGameOfLife ==
    /\ other.pc = "idle"
    /\ pc \in {"loop", "select"}
    /\ other' = [other EXCEPT !.pc = "init"]
    /\ UNCHANGED <<GolBoard, Steps, input, state, pc, timers, toggleChannel,
                   splatterChannel, StateStreams, StateStream, subs, received, published,
                   sentSteps, iterSteps, handled, nSignals, execution, activity, Boards, call, stored>>

\* GameOfLife of the second workflow up to the loop (game.go:321-357, Init
\* game.go:404-428): the initial board is assigned to the package variable
\* GolBoard.
OtherGameOfLifeStart ==
    /\ other.pc = "init"
    /\ \E board \in GetInitialBoard(other.UseExistingBoard, GolBoard) :
           GolBoard' = board
    /\ other' = [other EXCEPT !.pc = "loop", !.timers = 0]
    /\ UNCHANGED <<Steps, input, state, pc, timers, toggleChannel, splatterChannel,
                   StateStreams, StateStream, subs, received, published, sentSteps,
                   iterSteps, handled, nSignals, execution, activity, Boards, call, stored>>

\* The loop head of the second workflow (game.go:360-369): it tests and
\* counts the package variable Steps.
OtherLoopHead ==
    /\ other.pc = "loop"
    /\ Steps < DefaultMaxSteps
    /\ Steps' = Steps + 1
    /\ other' = [other EXCEPT !.pc = "select", !.timers = @ + 1]
    /\ UNCHANGED <<GolBoard, input, state, pc, timers, toggleChannel, splatterChannel,
                   StateStreams, StateStream, subs, received, published, sentSteps,
                   iterSteps, handled, nSignals, execution, activity, Boards, call, stored>>

\* A timer of the second workflow fires and its code after the Select runs
\* (game.go:372-390).
OtherTimerFuture ==
    /\ other.pc = "select"
    /\ other.timers > 0
    /\ NextGenerationAndSendState(OtherState, GolBoard)
    /\ other' = IF Steps % DefaultStoreInterval = 0
                THEN [pc |-> "init", timers |-> 0, UseExistingBoard |-> TRUE]
                ELSE [other EXCEPT !.pc = "loop", !.timers = @ - 1]
    /\ UNCHANGED <<Steps, input, state, pc, timers, toggleChannel, splatterChannel,
                   iterSteps, handled, nSignals, execution, activity, Boards, call, stored>>

\* The loop of the second workflow ends (game.go:393-396).
OtherCleanup ==
    /\ other.pc = "loop"
    /\ ~(Steps < DefaultMaxSteps)
    /\ StateStream' = NilStateStream(StateStream.capacity)
    /\ other' = [other EXCEPT !.pc = "done"]
    /\ UNCHANGED <<GolBoard, Steps, input, state, pc, timers, toggleChannel,
                   splatterChannel, StateStreams, subs, received, published, sentSteps,
                   iterSteps, handled, nSignals, execution, activity, Boards, call, stored>>

\* A timer of the second workflow fires (game.go:372-375) and its
\* NextGenerationAndSendState (game.go:526-537) starts the SendState
\* activity, which takes stateLock and makes the channel when the stream
\* variable is nil (board.go:234-241).  The activity now holds the lock.
OtherSendStateLock ==
    /\ other.pc = "select"
    /\ other.timers > 0
    /\ call = NoCall
    /\ LET nextGeneration == NextGeneration(GolBoard)
       IN  /\ GolBoard' = nextGeneration
           /\ call' = [name |-> "SendState",
                       State |-> [Id |-> OtherState.Id,
                                  Paused |-> OtherState.Paused,
                                  Step |-> Steps,
                                  TickTime |-> OtherState.TickTime,
                                  Flipped |-> DiffFlipped(GolBoard, nextGeneration)]]
    /\ StateStream' = MakeStateStream
    /\ StateStreams' = StateStreams \cup {OtherState.Id}
    /\ other' = [other EXCEPT !.pc = "sending", !.timers = @ - 1]
    /\ UNCHANGED <<Steps, input, state, pc, timers, toggleChannel, splatterChannel,
                   subs, received, published, sentSteps, iterSteps, handled, nSignals,
                   execution, activity, Boards, stored>>

\* The SendState activity of the second workflow does its non-blocking send
\* and releases stateLock (board.go:243-249), and the workflow goes on
\* (game.go:383-390).  When the stream variable was set to nil since the
\* activity made the channel, the send statement reads a variable that is
\* written without the lock: it sees nil (the send is never ready, the
\* StateChange is dropped) or still the channel it made (a client blocked in
\* the receive on it gets the StateChange).
OtherSendStateUnlock ==
    /\ other.pc = "sending"
    /\ call.name = "SendState"
    /\ IF StateStream.made
       THEN SendState(call.State)
       ELSE /\ \/ UNCHANGED <<subs, received>>
               \/ \E s \in Listening(call.State.Id) :
                      /\ subs' = [subs EXCEPT ![s].status = "writing"]
                      /\ received' = [received EXCEPT ![s] = call.State]
            /\ published' = call.State
            /\ sentSteps' = Append(sentSteps, call.State.Step)
            /\ UNCHANGED <<StateStreams, StateStream>>
    /\ call' = NoCall
    /\ other' = IF Steps % DefaultStoreInterval = 0
                THEN [pc |-> "init", timers |-> 0, UseExistingBoard |-> TRUE]
                ELSE [other EXCEPT !.pc = "loop"]
    /\ UNCHANGED <<GolBoard, Steps, input, state, pc, timers, toggleChannel,
                   splatterChannel, iterSteps, handled, nSignals, execution, activity,
                   Boards, stored>>

\* The steps of the second workflow.
OtherRun ==
    \/ OtherStartGameOfLife
    \/ OtherGameOfLifeStart
    \/ OtherLoopHead
    \/ OtherTimerFuture
    \/ OtherCleanup

(* --------------- board functions and activities, called ------------- *)

\* The state of the runs, their signals and their stream clients: what a
\* board function or an activity called on its own does not touch.
runVars == <<GolBoard, Steps, input, state, pc, timers, toggleChannel, splatterChannel,
             StateStreams, StateStream, subs, received, published, sentSteps, iterSteps,
             handled, nSignals, execution, activity, other>>

\* The radii Splatter is called with.
SplatterRadii == {signal.Size : signal \in SplatterSignals} \cup {2}

\* The rows of the origins Splatter is called with: those of the board and
\* the first one below it.
SplatterRows == 0 .. DefaultBoardLength

\* The NumCellsToSet the Splatter of client.go:596 is called with.
SplatterCounts == 0 .. 2

\* Every board of the given size.
BoardsOfSize(rows, cols) ==
    {[i \in 0 .. (rows - 1) |-> [j \in 0 .. (cols - 1) |-> <<i, j>> \in S]] :
        S \in SUBSET ((0 .. (rows - 1)) \X (0 .. (cols - 1)))}

\* The boards the board functions are called with: the boards of the
\* model's size with any pattern in the three rows and columns of their
\* first corner, and every board one row shorter, which is not square.
InputBoards ==
    {BoardOf(S) : S \in SUBSET ((Rows \X Cols) \cap ((0 .. 2) \X (0 .. 2)))}
        \cup BoardsOfSize(DefaultBoardLength - 1, DefaultBoardWidth)

\* NextGeneration computed in place: the cells of the board handed in are
\* overwritten with the next generation.
CallNextGenerationInPlace(board) ==
    /\ call' = [name |-> "NextGeneration", board |-> board,
                after |-> NextGeneration(board),
                result |-> NextGeneration(board),
                first |-> call = NoCall,
                repeated |-> call # NoCall /\ board = call.board]
    /\ UNCHANGED <<runVars, Boards, stored>>

\* NextGeneration (board.go:41-57) is called.  The call keeps the board handed in as it was before
\* the call (board) and as it is after it (after; NextGeneration writes only
\* the slices it makes itself), the board returned, whether it was the
\* first call, and whether it repeated the input of the call before.
CallNextGeneration(board) ==
    /\ call' = [name |-> "NextGeneration", board |-> board, after |-> board,
                result |-> NextGeneration(board),
                first |-> call = NoCall,
                repeated |-> call # NoCall /\ board = call.board]
    /\ UNCHANGED <<runVars, Boards, stored>>

\* The boards DiffFlipped is called with: the seeded boards and every board
\* of two rows and three columns.
DiffBoards == InitialBoards \cup BoardsOfSize(2, 3)

\* DiffFlipped (board.go:102-112) is called with two boards of the same
\* dimensions.
CallDiffFlipped(prev, curr) ==
    /\ Dimensions(prev) = Dimensions(curr)
    /\ call' = [name |-> "DiffFlipped", prev |-> prev, curr |-> curr,
                result |-> DiffFlipped(prev, curr),
                n |-> IF call = NoCall THEN 1 ELSE call.n + 1]
    /\ UNCHANGED <<runVars, Boards, stored>>

\* The references uuid.New().String() can return (board.go:255).
Refs == 1 .. MaxBoards

\* The boards that are stored: an empty one, one with a single cell, a blinker.
StoreBoards == {BoardOf(S) : S \in {{}, {<<1, 1>>}, {<<1, 0>>, <<1, 1>>, <<1, 2>>}}}

\* StoreBoard with a reference that may be one it returned before.
StoreBoardAnyRef(board) ==
    /\ Len(stored) < MaxBoards
    /\ \E ref \in Refs :
          /\ Boards' = [r \in (DOMAIN Boards) \cup {ref} |->
                            IF r = ref THEN board ELSE Boards[r]]
          /\ stored' = Append(stored, <<ref, board>>)
          /\ call' = [name |-> "StoreBoard", board |-> board, ref |-> ref]
    /\ UNCHANGED runVars

\* Am.StoreBoard (board.go:252-258): a new UUID is the reference (one that
\* was not returned before) and Boards[ref] = board.
StoreBoard(board) ==
    /\ Len(stored) < MaxBoards
    /\ \E ref \in Refs \ DOMAIN Boards :
          /\ Boards' = [r \in (DOMAIN Boards) \cup {ref} |->
                            IF r = ref THEN board ELSE Boards[r]]
          /\ stored' = Append(stored, <<ref, board>>)
          /\ call' = [name |-> "StoreBoard", board |-> board, ref |-> ref]
    /\ UNCHANGED runVars

\* GetBoard without the test of ok: the zero value of the map is returned
\* with no error.
GetBoardUnchecked(ref) ==
    /\ call' = [name |-> "GetBoard", ref |-> ref,
                board |-> IF ref \in DOMAIN Boards THEN Boards[ref] ELSE NilBoard,
                err |-> FALSE]
    /\ UNCHANGED <<runVars, Boards, stored>>

\* Am.GetBoard (board.go:260-268): the board under the reference, or the
\* empty Board{} and the error "board not found" when there is none.
GetBoard(ref) ==
    /\ call' = [name |-> "GetBoard", ref |-> ref,
                board |-> IF ref \in DOMAIN Boards THEN Boards[ref] ELSE NilBoard,
                err |-> ref \notin DOMAIN Boards]
    /\ UNCHANGED <<runVars, Boards, stored>>

\* Am.Splatter (board.go:135-170) is called, in the worker process, with the
\* Board value that was last handed to StoreBoard.  A Board is a slice of
\* slices: Boards[ref] = board (board.go:256) keeps the slice, not a copy of
\* its cells, and Splatter writes input.Board[r][c] = true into the same
\* rows (board.go:160-167), so the table's entry shows the writes, those
\* made before a panic included.
SplatterStoredBoard(Row, Col, Radius) ==
    /\ call.name = "StoreBoard"
    /\ \E result \in Splatter(call.board, Row, Col, Radius) :
          /\ Boards' = [Boards EXCEPT ![call.ref] = result.Board]
          /\ call' = [name |-> "Splatter", board |-> result.Board, Row |-> Row,
                      Col |-> Col, Radius |-> Radius, panic |-> result.panic,
                      result |-> result.Board]
    /\ UNCHANGED <<runVars, stored>>

\* Am.Splatter of board.go:135-170 is called, once, with a seeded board; the
\* call keeps the board as it was handed in, and what came back (for a panic, the
\* board as the writes made before the panic left it).
CallSplatter(board, Row, Col, Radius) ==
    /\ call = NoCall
    /\ \E result \in Splatter(board, Row, Col, Radius) :
          call' = [name |-> "Splatter", board |-> board, Row |-> Row, Col |-> Col,
                   Radius |-> Radius, panic |-> result.panic, result |-> result.Board]
    /\ UNCHANGED <<runVars, Boards, stored>>

\* Am.Splatter of client.go:596-612 is called with a seeded board.
CallSplatterWithNumCells(board, Row, Col, Radius, NumCellsToSet) ==
    /\ call = NoCall
    /\ \E result \in SplatterWithNumCells(board, Row, Col, Radius, NumCellsToSet) :
          call' = [name |-> "SplatterWithNumCells", board |-> board, Row |-> Row,
                   Col |-> Col, Radius |-> Radius, panic |-> result.panic,
                   result |-> result.Board]
    /\ UNCHANGED <<runVars, Boards, stored>>

\* The "board" query (game.go:329-332): the handler, registered once Init
\* has returned, answers with StateChangeFromNothing of the GolState variable
\* the loop works on.  It changes nothing of the run.
QueryBoard ==
    /\ call = NoCall
    /\ pc \in {"loop", "select"}
    /\ call' = [name |-> "board", result |-> StateChangeFromNothing(state)]
    /\ UNCHANGED <<runVars, Boards, stored>>

\* The workflow's own steps when no signal is consumed.
Controller ==
    \/ GameOfLifeStart
    \/ LoopHead
    \/ TimerFuture
    \/ Cleanup

\* The HTTP clients of the state stream.
Streaming ==
    \/ \E s \in Subscribers, id \in RequestIds : GetState(s, id)
    \/ \E s \in Subscribers : WriteState(s)
    \/ \E s \in Subscribers : ContextDone(s)

\* The run and the clients that signal it.
Next ==
    \/ Controller
    \/ ToggleReceive
    \/ SplatterReceive
    \/ SendToggle
    \/ \E signal \in SplatterSignals : SendSplatter(signal)

Spec == Init /\ [][Next]_vars

\* The run, toggle signals and the clients of its state stream.
StreamNext ==
    \/ Controller
    \/ ToggleReceive
    \/ SendToggle
    \/ Streaming

StreamSpec == Init /\ [][StreamNext]_vars

\* A run no signal is sent to.  The
\* Temporal worker keeps scheduling the workflow and its timers fire, so the
\* workflow's steps are weakly fair.
QuietNext == Controller

QuietSpec == Init /\ [][QuietNext]_vars /\ WF_vars(Controller)

\* A run no signal is sent to and clients that ask for the state stream of
\* its ID or of an unknown ID, ask again when they are answered Not-Found,
\* and stay connected once a stream is opened.
SubscribeNext ==
    \/ Controller
    \/ \E s \in Subscribers, id \in RequestIds : GetState(s, id)
    \/ \E s \in Subscribers : WriteState(s)

SubscribeSpec == Init /\ [][SubscribeNext]_vars

\* A run no signal is sent to and the clients of its state stream, in the
\* build with the buffered channel.
BufferedNext ==
    \/ Controller
    \/ Streaming
    \/ \E s \in Subscribers : ReceiveStateStream(s)

BufferedSpec == BufferedInit /\ [][BufferedNext]_vars

\* A run no signal is sent to and clients that ask for its state stream and
\* stay connected, under fair scheduling: the worker keeps running the
\* workflow and a request handler that has received a StateChange writes it.
StayingNext ==
    \/ Controller
    \/ \E s \in Subscribers : GetState(s, WorkflowId)
    \/ \E s \in Subscribers : WriteState(s)

FairSubscribeSpec ==
    /\ Init
    /\ [][StayingNext]_vars
    /\ WF_vars(Controller)
    /\ WF_vars(\E s \in Subscribers : WriteState(s))

\* The run of the controller that has one goroutine per signal, and the
\* clients that send it splatter signals (it reads their size only).  Its Steps restart at 0 in every
\* execution, before they reach MaxSteps, so its loop never ends.
GoroutineNext ==
    \/ GoroutineGameOfLifeStart
    \/ GenerationLoop
    \/ SplatterGoroutineReceive
    \/ SplatterGoroutineResult
    \/ \E signal \in {sig \in SplatterSignals : sig.X = 1 /\ sig.Y = 1} : SendSplatter(signal)

GoroutineSpec == Init /\ [][GoroutineNext]_vars

\* The run of the controller of part_003 whose first activity, the one that
\* seeds the board, may fail.
FailingInitNext ==
    \/ GoroutineNext
    \/ GoroutineInitFails

FailingInitSpec == Init /\ [][FailingInitNext]_vars

\* Two runs in one worker process: the run with its toggle signals, and a
\* second run started while the first is active.
TwoRunNext ==
    \/ Controller
    \/ ToggleReceive
    \/ SendToggle
    \/ OtherRun

TwoRunSpec == Init /\ [][TwoRunNext]_vars

\* The run with its toggle signals and a client that queries its board.
QueryNext ==
    \/ Controller
    \/ ToggleReceive
    \/ SendToggle
    \/ QueryBoard

QuerySpec == Init /\ [][QueryNext]_vars

\* The one HTTP client that follows the second run's state stream.
StreamClient == CHOOSE s \in Subscribers : TRUE

\* Two runs in one worker process and a client of the second run's state
\* stream, with the SendState activity of the second run in two steps: what
\* it does on taking stateLock, and its send before it releases the lock.
TeardownNext ==
    \/ Controller
    \/ OtherStartGameOfLife
    \/ OtherGameOfLifeStart
    \/ OtherLoopHead
    \/ OtherSendStateLock
    \/ OtherSendStateUnlock
    \/ OtherCleanup
    \/ GetState(StreamClient, OtherWorkflowId)
    \/ WriteState(StreamClient)

TeardownSpec == Init /\ [][TeardownNext]_vars

\* Code of the worker process that stores boards, splatters the board it
\* has just stored, and gets boards by reference.
SnapshotNext ==
    \/ \E board \in StoreBoards : StoreBoard(board)
    \/ \E signal \in SplatterSignals :
           SplatterStoredBoard(signal.X, signal.Y, signal.Size)
    \/ \E ref \in Refs : GetBoard(ref)

SnapshotSpec == Init /\ [][SnapshotNext]_vars

\* The run and its signals under fair scheduling: the worker keeps running
\* the workflow, a timer that was started fires, and a signal that stays
\* queued while the workflow blocks in Select is handed to its callback.
FairSpec ==
    /\ Init
    /\ [][Next]_vars
    /\ WF_vars(Controller)
    /\ WF_vars(ToggleReceive)
    /\ WF_vars(SplatterReceive)

\* Calls of the two variants of Am.Splatter on seeded boards.
SplatterNext ==
    \/ \E board \in InitialBoards, Row \in SplatterRows, Col \in Cols,
          Radius \in SplatterRadii : CallSplatter(board, Row, Col, Radius)
    \/ \E board \in InitialBoards, Row \in SplatterRows, Col \in Cols,
          Radius \in SplatterRadii, NumCellsToSet \in SplatterCounts :
              CallSplatterWithNumCells(board, Row, Col, Radius, NumCellsToSet)

SplatterSpec == Init /\ [][SplatterNext]_vars

\* NextGeneration is called for the first time, with any board.
FirstGeneration ==
    /\ call = NoCall
    /\ \E board \in InputBoards : CallNextGeneration(board)

\* NextGeneration is called again, with the board the call before returned
\* or with the board the call before was given.
FurtherGeneration ==
    /\ call # NoCall
    /\ call.name = "NextGeneration"
    /\ \E board \in {call.result, call.board} : CallNextGeneration(board)

\* Calls of NextGeneration on any board, repeated on what it returns.
GenerationNext ==
    \/ FirstGeneration
    \/ FurtherGeneration

GenerationSpec == Init /\ [][GenerationNext]_vars

\* DiffFlipped is called for the first time.
FirstDiffFlipped ==
    /\ call = NoCall
    /\ \E prev \in DiffBoards, curr \in DiffBoards : CallDiffFlipped(prev, curr)

\* DiffFlipped is called once more, with the two boards the other way round.
SwappedDiffFlipped ==
    /\ call # NoCall
    /\ call.name = "DiffFlipped"
    /\ call.n = 1
    /\ CallDiffFlipped(call.curr, call.prev)

\* Calls of DiffFlipped on pairs of boards of the same dimensions.
DiffNext ==
    \/ FirstDiffFlipped
    \/ SwappedDiffFlipped

DiffSpec == Init /\ [][DiffNext]_vars

\* Calls of the two store activities.
StoreNext ==
    \/ \E board \in StoreBoards : StoreBoard(board)
    \/ \E ref \in Refs : GetBoard(ref)

StoreSpec == Init /\ [][StoreNext]_vars

(* ------------------------------- claims ------------------------------- *)

\* A StateChange was handed to SendState in this step.
Published == Len(sentSteps') = Len(sentSteps) + 1

\* The steps 1, 2, ..., n in order.
StepsUpTo(n) == [k \in 1 .. n |-> k]

\* C1: every timer tick the controller handles replaces the board by its
\* next generation, leaves step one above what it was when the iteration
\* began, and publishes one StateChange carrying that step, paused = false
\* and the cells that differ between the board before and after the tick.
C1_TickAdvancesGeneration ==
    [][TimerFuture =>
          /\ GolBoard' = NextGeneration(GolBoard)
          /\ Steps' = iterSteps + 1
          /\ Published
          /\ published'.Step = Steps'
          /\ published'.Paused = FALSE
          /\ published'.Flipped = DiffFlipped(GolBoard, GolBoard')]_vars

\* C2: handling a toggleStatus signal flips paused and leaves the board and
\* the step as they were; the StateChange published for it carries the new
\* paused value and no flipped cell.
C2_ToggleOnlyFlipsPaused ==
    [][ToggleReceive =>
          /\ state'.Paused = ~state.Paused
          /\ GolBoard' = GolBoard
          /\ Steps' = Steps
          /\ Published
          /\ published'.Paused = state'.Paused
          /\ published'.Flipped = <<>>]_vars

\* C3: while the run is paused (after the toggle that paused it, before the
\* next toggle is handled) no StateChange with a higher step is published
\* and no generation is applied to the board: a timer that fires leaves the
\* board alone and a splatter leaves it as the Splatter activity returned it.
C3_NoGenerationWhilePaused ==
    [][(pc = "select" /\ state.Paused /\ pc' # "select" /\ ~ToggleReceive) =>
          /\ Published => published'.Step <= published.Step
          /\ handled' = "timer" => GolBoard' = GolBoard
          /\ handled' = "splatter" =>
                \E result \in Splatter(GolBoard, Head(splatterChannel).X,
                                       Head(splatterChannel).Y, Head(splatterChannel).Size) :
                    GolBoard' = result.Board]_vars

\* C4: handling a splatter signal does not change step, and the StateChange
\* published for it lists exactly the cells whose value differs between the
\* board before and the board after the splatter was handled.
C4_SplatterDeltaIsItsChange ==
    [][(SplatterReceive /\ pc' # "failed") =>
          /\ Steps' = Steps
          /\ Published
          /\ Range(published'.Flipped) = Range(DiffFlipped(GolBoard, GolBoard'))]_vars

\* The origin of the splatter signal at the head of the channel is on the board.
HeadSplatterInside ==
    /\ splatterChannel # <<>>
    /\ Head(splatterChannel).X \in Rows
    /\ Head(splatterChannel).Y \in Cols

\* C5: after the controller handled a splatter signal whose origin is on the
\* board, the origin cell is alive in the run's board; with size 0 and the
\* origin dead before, the board differs from the board before in exactly
\* the origin cell.
C5_SplatterOriginAlive ==
    [][(SplatterReceive /\ HeadSplatterInside) =>
          LET signal == Head(splatterChannel)
          IN  /\ pc' # "failed"
              /\ GolBoard'[signal.X][signal.Y]
              /\ (signal.Size = 0 /\ ~GolBoard[signal.X][signal.Y]) =>
                    Range(DiffFlipped(GolBoard, GolBoard')) = {<<signal.X, signal.Y>>}]_vars

\* C6: a run started unpaused to which no signal is sent publishes one
\* StateChange per generation, with the steps 1, 2, ..., MaxSteps in that
\* order and nothing else, and then terminates.
C6_QuietRunCountsToMaxSteps ==
    /\ [](\A k \in DOMAIN sentSteps : sentSteps[k] = k)
    /\ [][Published => (handled' = "timer" /\ GolBoard' = NextGeneration(GolBoard))]_vars
    /\ [](pc = "done" => sentSteps = StepsUpTo(DefaultMaxSteps))
    /\ <>(pc = "done")

\* C6 witness: the quiet run has ended after publishing MaxSteps steps,
\* having continued as new on the way.
C6_Witness ==
    /\ pc = "done"
    /\ nSignals = 0
    /\ ~input.Paused
    /\ Len(sentSteps) = DefaultMaxSteps
    /\ execution > 1

C8_CheckpointKeepsPaused ==
    [][(pc = "init" /\ execution > 0 /\ pc' = "loop") =>
          /\ state'.Paused = state.Paused
          /\ state'.TickTime = state.TickTime]_vars

\* C9: the workflow continues as new only right after handling a timer tick
\* that left step a multiple of the store interval, never after handling a
\* toggle or a splatter.
C9_CheckpointOnlyAfterTick ==
    [][(pc = "select" /\ pc' = "init") =>
          /\ handled' = "timer"
          /\ Steps' % DefaultStoreInterval = 0]_vars

\* C10: once the run has terminated the registry holds no channel for its
\* run ID and none is made, no client is handed a StateChange of the run,
\* and a new state-stream request for the run ID is answered Not-Found.
C10_TerminatedRunHasNoStream ==
    [][pc' = "done" =>
          /\ WorkflowId \notin StateStreams'
          /\ pc = "done" => received' = received
          /\ \A s \in Subscribers :
                (pc = "done" /\ GetState(s, WorkflowId)) => subs'[s].status = "notfound"]_vars

\* C11: under fair scheduling a run that is not left paused for ever
\* eventually terminates, and a run that has terminated has its step equal
\* to the configured maximum.
C11_RunTerminatesAtMaxSteps ==
    /\ []<>(~state.Paused) => <>(pc = "done")
    /\ [](pc = "done" => Steps = input.MaxSteps)

\* C12: SendState never waits for a client (the step that publishes can
\* always be taken), and a client is handed a StateChange only in the step
\* that publishes it, while the client is blocked in the receive: what is
\* published with no client ready is not kept for a later one.
C12_PublishNeverQueues ==
    /\ []((pc = "select" /\ timers > 0) => ENABLED TimerFuture)
    /\ [][\A s \in Subscribers :
             (subs[s].status = "listening" /\ subs'[s].status = "writing") =>
                 (Published /\ received'[s] = published')]_vars

\* C13: on every stream a client opens, connection_established is the first
\* event written, and the first StateChange handed to the client is the
\* board from nothing: its flipped cells are the live cells of the run's
\* board (as it is before or after the step that hands it over).
C13_FirstDataIsBoardFromNothing ==
    /\ [](\A s \in Subscribers :
             subs[s].status \in {"listening", "writing"} =>
                 /\ subs[s].sent # <<>>
                 /\ Head(subs[s].sent) = "connection_established")
    /\ [][\A s \in Subscribers :
             (/\ subs[s].status = "listening"
              /\ subs'[s].status = "writing"
              /\ subs[s].sent = <<"connection_established">>) =>
                 /\ received'[s].Id = subs[s].id
                 /\ \/ received'[s] = StateChangeFromNothing(state)
                    \/ Range(received'[s].Flipped) = Alive(GolBoard')]_vars

\* C14: when several clients are blocked in the receive on the run's state
\* stream, a StateChange that is published is handed to every one of them.
C14_PublishReachesEverySubscriber ==
    [][(Published /\ Cardinality(Listening(WorkflowId)) >= 2) =>
          \A s \in Listening(WorkflowId) :
              /\ subs'[s].status = "writing"
              /\ received'[s] = published']_vars

\* C15: a state-stream request for a run ID the registry has no channel for
\* (the registry never removes one, so none was ever registered) is answered
\* Not-Found at once: no event is written on the response, no StateChange is
\* handed over and the registry is left as it was.
C15_UnknownRunIsNotFound ==
    [][\A s \in Subscribers, id \in RequestIds :
          (GetState(s, id) /\ id \notin StateStreams) =>
              /\ subs'[s].status = "notfound"
              /\ subs'[s].sent = <<>>
              /\ received' = received
              /\ StateStreams' = StateStreams]_vars

\* C15 witness: while the run's channel is registered, a request for an ID
\* no workflow was started with has been answered Not-Found.
C15_Witness ==
    /\ WorkflowId \in StateStreams
    /\ \E s \in Subscribers :
          /\ subs[s].status = "notfound"
          /\ subs[s].id = "other"
          /\ subs[s].sent = <<>>

\* C16: once the run has terminated, every state stream open for it
\* eventually ends: no request handler stays in its receive loop for ever.
C16_OpenStreamsEndAtTermination ==
    [](pc = "done" =>
          <>(\A s \in Subscribers : subs[s].status \notin {"listening", "writing"}))

\* The board after is one that RandomSplatter with the given radius can
\* make of the board before, whatever it draws: the cells alive before are
\* alive, some target cell is alive, and the other new cells are at most
\* Radius*4 + 3 cells no further than Radius from the target.
IsSplatterOf(after, before, Radius) ==
    LET new == Alive(after) \ Alive(before)
    IN  /\ Alive(before) \subseteq Alive(after)
        /\ \E target \in Alive(after) :
              /\ \A cell \in new :
                    /\ cell[1] - target[1] \in (-Radius) .. Radius
                    /\ cell[2] - target[2] \in (-Radius) .. Radius
              /\ Cardinality(new \ {target}) <= Radius * 4 + 3

\* C17: ticks and splatters of a run are serialized: the board a splatter
\* leaves is a splatter of the board as it is when the result is applied, so
\* no generation computed since the splatter began is undone.
C17_SplatterAppliesToCurrentBoard ==
    [][SplatterGoroutineResult =>
          IsSplatterOf(GolBoard', GolBoard, Head(activity).Radius)]_vars

\* C18: with two runs active, a tick of one run (its loop counting the
\* step, its timer being handled) changes neither the board nor the step nor
\* the paused flag of the other run.
C18_RunsDoNotShareState ==
    [][((OtherLoopHead \/ OtherTimerFuture) /\ pc \in {"loop", "select"}) =>
          /\ GolBoard' = GolBoard
          /\ Steps' = Steps
          /\ state'.Paused = state.Paused]_vars

\* C19: the run's step is a natural number that never decreases, within an
\* execution and from one execution to the one that continues it; the steps
\* of the StateChanges it publishes never decrease either.
C19_StepNeverDecreases ==
    /\ [](Steps \in Nat)
    /\ [][Steps' >= Steps]_vars
    /\ [](\A k \in 1 .. (Len(sentSteps) - 1) : sentSteps[k] <= sentSteps[k + 1])

\* C19 witness: an execution that continued an earlier one has counted a
\* step beyond those of the first execution.
C19_Witness ==
    /\ execution > 1
    /\ pc = "select"
    /\ Steps > iterSteps
    /\ Steps > DefaultStoreInterval

\* C20: on every board the run can hold, for every origin on the board and
\* every radius tried, each outcome of Splatter is a returned board (no
\* panic) in which the origin cell is alive.
C20_SplatterCompletesWithOriginAlive ==
    execution > 0 =>
        \A Row \in Rows, Col \in Cols, Radius \in SplatterRadii :
            \A result \in Splatter(GolBoard, Row, Col, Radius) :
                /\ ~result.panic
                /\ result.Board[Row][Col]

\* The last call was one of Am.Splatter (board.go:135) with its origin on
\* the board.
SplatterCalledInside ==
    /\ call.name = "Splatter"
    /\ call.Row \in DOMAIN call.board
    /\ call.Col \in DOMAIN call.board[0]

\* C21: a call of Splatter with radius 0 and its origin on the board
\* returns a board (it does not panic), the returned board differs from the
\* board handed in at most in the origin cell, and the origin cell is alive
\* in it.
C21_RadiusZeroSetsOnlyOrigin ==
    (SplatterCalledInside /\ call.Radius = 0) =>
        /\ ~call.panic
        /\ Range(DiffFlipped(call.board, call.result)) \subseteq {<<call.Row, call.Col>>}
        /\ call.result[call.Row][call.Col]

\* C22: whichever Splatter was called, every cell that is alive in the board
\* it left and was dead in the board handed in is a cell of the board whose
\* Euclidean distance from the origin is at most the radius.
C22_NewCellsWithinRadius ==
    call.name \in {"Splatter", "SplatterWithNumCells"} =>
        \A cell \in Alive(call.result) \ Alive(call.board) :
            /\ cell[1] \in DOMAIN call.board
            /\ cell[2] \in DOMAIN call.board[0]
            /\ (cell[1] - call.Row) * (cell[1] - call.Row)
                  + (cell[2] - call.Col) * (cell[2] - call.Col)
                  <= call.Radius * call.Radius

\* The live Moore neighbours of cell <<i, j>>: the live cells of the grid
\* other than the cell itself that are at most one row and one column away.
LiveMooreNeighbours(board, i, j) ==
    {c \in (DOMAIN board) \X (DOMAIN board[0]) :
        /\ c # <<i, j>>
        /\ c[1] - i \in -1 .. 1
        /\ c[2] - j \in -1 .. 1
        /\ board[c[1]][c[2]]}

\* C23: in the board NextGeneration returns, a cell is alive exactly when it
\* was alive with 2 or 3 live Moore neighbours or dead with exactly 3, where
\* only cells of the grid are neighbours; the board returned has the cells of
\* the board handed in.
C23_NextGenerationFollowsRules ==
    call.name = "NextGeneration" =>
        /\ DOMAIN call.result = DOMAIN call.board
        /\ \A i \in DOMAIN call.board :
              /\ DOMAIN call.result[i] = DOMAIN call.board[i]
              /\ \A j \in DOMAIN call.board[i] :
                    LET n == Cardinality(LiveMooreNeighbours(call.board, i, j))
                    IN  call.result[i][j] <=>
                            \/ call.board[i][j] /\ n \in {2, 3}
                            \/ ~call.board[i][j] /\ n = 3

\* C23 witness: NextGeneration was called with a board on which a cell is
\* born, a cell survives, a cell dies with more than 3 neighbours, a cell
\* dies with fewer than 2, and a cell on the edge got another value than the
\* rule gives when the cells across the edge are counted as neighbours.
C23_Witness ==
    /\ call.name = "NextGeneration"
    /\ LET cells == (DOMAIN call.board) \X (DOMAIN call.board[0])
           n(c) == Cardinality(LiveMooreNeighbours(call.board, c[1], c[2]))
       IN  /\ \E c \in cells : ~call.board[c[1]][c[2]] /\ call.result[c[1]][c[2]]
           /\ \E c \in cells : call.board[c[1]][c[2]] /\ call.result[c[1]][c[2]]
           /\ \E c \in cells : call.board[c[1]][c[2]] /\ n(c) > 3 /\ ~call.result[c[1]][c[2]]
           /\ \E c \in cells : call.board[c[1]][c[2]] /\ n(c) < 2 /\ ~call.result[c[1]][c[2]]
           /\ \E c \in cells :
                 LET wrapped == countAliveNeighborsWrapped(call.board, c[1], c[2])
                 IN  call.result[c[1]][c[2]] #
                         (\/ call.board[c[1]][c[2]] /\ wrapped \in {2, 3}
                          \/ ~call.board[c[1]][c[2]] /\ wrapped = 3)

\* C24: once the run has a board, all its rows have one length, and no step
\* of the run (a generation, a splatter, a continue-as-new and the start of
\* the execution that follows) changes the number of rows or the length of
\* the rows.
C24_BoardKeepsDimensions ==
    /\ [](GolBoard # NilBoard =>
             /\ Dimensions(GolBoard).rows > 0
             /\ Cardinality(Dimensions(GolBoard).cols) = 1)
    /\ [][GolBoard # NilBoard => Dimensions(GolBoard') = Dimensions(GolBoard)]_vars

\* C24 witness: an execution that continued an earlier one has handled a
\* splatter signal, after generations were computed, and holds a board.
C24_Witness ==
    /\ execution > 1
    /\ handled = "splatter"
    /\ pc = "loop"
    /\ Steps > DefaultStoreInterval
    /\ Dimensions(GolBoard) = [rows |-> DefaultBoardLength, cols |-> {DefaultBoardWidth}]

IsBlinker(board) ==
    \E i \in 1 .. (len(board) - 2), j \in 1 .. (len(board[0]) - 2) :
        \/ Alive(board) = {<<i, j - 1>>, <<i, j>>, <<i, j + 1>>}
        \/ Alive(board) = {<<i - 1, j>>, <<i, j>>, <<i + 1, j>>}

\* C26: NextGeneration called with a blinker returns another board, and
\* called with that board it returns the blinker again.
C26_BlinkerHasPeriodTwo ==
    /\ [](call.name = "NextGeneration" /\ IsBlinker(call.board) =>
             call.result # call.board)
    /\ [][(/\ call.name = "NextGeneration"
           /\ IsBlinker(call.board)
           /\ call'.name = "NextGeneration"
           /\ call'.board = call.result) => call'.result = call.board]_vars

\* C26 witness: the second call in a row, made with the board the first
\* returned, has returned a blinker that differs from the board it was given.
C26_Witness ==
    /\ call.name = "NextGeneration"
    /\ ~call.first
    /\ ~call.repeated
    /\ IsBlinker(call.result)
    /\ call.board # call.result
    /\ NextGeneration(call.result) = call.board

\* C27: DiffFlipped called with the same board twice returns no cell, and
\* called with two boards of the same dimensions the other way round it
\* returns as many cells as before.
C27_DiffFlippedSymmetricCount ==
    /\ []((call.name = "DiffFlipped" /\ call.prev = call.curr) => call.result = <<>>)
    /\ [][(/\ call.name = "DiffFlipped"
           /\ call'.name = "DiffFlipped"
           /\ call'.prev = call.curr
           /\ call'.curr = call.prev) => Len(call'.result) = Len(call.result)]_vars

\* C27 witness: DiffFlipped was called a second time, with the boards the
\* other way round, on boards that are not square and differ in cells that
\* came alive and in more cells that died.
C27_Witness ==
    /\ call.name = "DiffFlipped"
    /\ call.n = 2
    /\ len(call.curr) # len(call.curr[0])
    /\ Alive(call.curr) \ Alive(call.prev) # {}
    /\ Cardinality(Alive(call.prev) \ Alive(call.curr))
          > Cardinality(Alive(call.curr) \ Alive(call.prev))

\* The references StoreBoard has returned.
StoredRefs == {stored[k][1] : k \in DOMAIN stored}

\* C28: a GetBoard with a reference StoreBoard returned gives, with no
\* error, the board that StoreBoard call was given, whatever was stored
\* since.
C28_GetBoardReturnsStoredBoard ==
    (call.name = "GetBoard" /\ call.ref \in StoredRefs) =>
        /\ ~call.err
        /\ \A k \in DOMAIN stored : stored[k][1] = call.ref => call.board = stored[k][2]

\* C28 witness: GetBoard has returned the first board stored after another
\* board, different from it, was stored.
C28_Witness ==
    /\ call.name = "GetBoard"
    /\ Len(stored) >= 2
    /\ call.ref = stored[1][1]
    /\ ~call.err
    /\ call.board = stored[1][2]
    /\ stored[2][2] # stored[1][2]

\* C29: a GetBoard with a reference StoreBoard never returned gives the
\* error and the empty board, and leaves the table of stored boards as it
\* was.
C29_UnknownRefIsNotFound ==
    [][\A ref \in Refs :
          (GetBoard(ref) /\ ref \notin StoredRefs) =>
              /\ call'.err
              /\ call'.board = NilBoard
              /\ Boards' = Boards]_vars

\* C29 witness: with boards stored, a GetBoard with a reference that no
\* StoreBoard returned has given the error.
C29_Witness ==
    /\ call.name = "GetBoard"
    /\ call.ref \notin StoredRefs
    /\ call.err
    /\ Len(stored) >= 2
    /\ DOMAIN Boards = StoredRefs

\* The splatter signal at the head of the channel cannot be applied to the
\* run's board: every outcome of the Splatter activity for it is a panic.
HeadSplatterFails ==
    /\ splatterChannel # <<>>
    /\ \A result \in Splatter(GolBoard, Head(splatterChannel).X,
                               Head(splatterChannel).Y, Head(splatterChannel).Size) :
          result.panic

\* C30: when the controller handles a splatter signal that cannot be
\* applied, the board, the step and the paused flag stay as they were and
\* the run goes on: it is not left in the failed activity.
C30_FailedCommandIsDiscarded ==
    [][(SplatterReceive /\ HeadSplatterFails) =>
          /\ GolBoard' = GolBoard
          /\ Steps' = Steps
          /\ state'.Paused = state.Paused
          /\ pc' # "failed"]_vars

\* C31: a run whose activity for the starting board failed has terminated
\* with an error: it is not running and it has not returned successfully.
C31_FailedInitEndsInError ==
    (call.name = "GetRandomBoard" /\ call.err) => pc = "failed"

\* C32: when an execution ends in a checkpoint (continue-as-new), the board
\* it leaves has been stored by StoreBoard under a reference before the
\* successor starts, so that the successor can get it by that reference.
C32_CheckpointStoresBoard ==
    [][(pc = "select" /\ pc' = "init") =>
          \E i \in DOMAIN stored' :
              /\ stored'[i][2] = GolBoard'
              /\ stored'[i][1] \in DOMAIN Boards']_vars

\* C33: no command is lost: a toggle or splatter signal leaves the run's
\* pending signals only when its own callback handles it, one at a time and
\* in arrival order, also in a step that ends the execution in a checkpoint.
C33_PendingCommandsAreHandled ==
    [][/\ toggleChannel' < toggleChannel =>
            (handled' = "toggle" /\ toggleChannel' = toggleChannel - 1)
       /\ Len(splatterChannel') < Len(splatterChannel) =>
            (handled' = "splatter" /\ splatterChannel' = Tail(splatterChannel))]_vars

\* C34: a run started without continuation input begins at step 0 on a
\* newly seeded board, whatever a run started earlier in the same worker has
\* done: when the second workflow's first execution has initialised, the
\* step counter it works with is 0 and its board is one of the seeds.
C34_FreshRunStartsAtStepZero ==
    [][(other.pc = "init" /\ ~other.UseExistingBoard /\ other'.pc = "loop") =>
          (Steps' = 0 /\ GolBoard' \in InitialBoards)]_vars

\* C35: the answer of the board query lists exactly the live cells of the
\* run's board as it is when the query is answered, each once, and carries
\* the run's step and paused flag of that moment.
C35_QueryReturnsCurrentBoard ==
    [][(call.name # "board" /\ call'.name = "board") =>
          /\ Range(call'.result.Flipped) = Alive(GolBoard')
          /\ Len(call'.result.Flipped) = Cardinality(Alive(GolBoard'))
          /\ call'.result.Step = Steps'
          /\ call'.result.Paused = state'.Paused]_vars

\* C35 happens: a query was answered for a paused run that had counted steps
\* and had live cells, in an execution that was started unpaused.
C35_Witness ==
    /\ call.name = "board"
    /\ call.result.Paused
    /\ ~input.Paused
    /\ call.result.Step > 0
    /\ call.result.Flipped # <<>>

\* C36: every change of the run's board after its initialisation comes with
\* exactly one published StateChange whose flipped cells, toggled in the
\* board as it was, give the board as it is; and nothing is published
\* without it.  (So the deltas published so far, replayed on the initial
\* board, give the current board whenever the controller waits.)
C36_DeltasReplayToCurrentBoard ==
    [][(pc # "init" /\ (GolBoard' # GolBoard \/ sentSteps' # sentSteps)) =>
          /\ Len(sentSteps') = Len(sentSteps) + 1
          /\ GolBoard' = FlipFrom(GolBoard, published'.Flipped, 1)]_vars

\* C37: the run never has more than one tick timer pending, and none while
\* it is paused.
C37_AtMostOneTimerArmed ==
    /\ timers <= 1
    /\ state.Paused => timers = 0

\* C38: the stream variable is written only under the lock: while a
\* SendState activity holds stateLock, between making the channel and
\* sending on it, no step of another goroutine changes the stream variable.
C38_TeardownHoldsTheLock ==
    [][(other.pc = "sending" /\ other'.pc = "sending") =>
          StateStream' = StateStream]_vars

\* C39: a stored snapshot does not change: under every reference StoreBoard
\* returned, the table holds the board with the cells it had when it was
\* stored, whatever was done to the caller's board since.
C39_SnapshotIsIsolated ==
    \A k \in DOMAIN stored : Boards[stored[k][1]] = stored[k][2]

=============================================================================
